---- MODULE Spec2Model ----
(***************************************************************************)
(* A model of app.py: the Streamlit script main() with its two helpers     *)
(* plot_dag_graphviz and toggle_table_display.                             *)
(*                                                                         *)
(* One run of main() is one execution of the script for one browser        *)
(* session.  Streamlit re-executes the script on every widget interaction; *)
(* st.session_state survives from one run of a session to the next, and    *)
(* every session runs in the same process and working directory, so the    *)
(* file system is shared by all sessions.                                  *)
(***************************************************************************)
EXTENDS Integers, Sequences, FiniteSets, TLC

(***************************************************************************)
(* Bounds and program constants                                            *)
(***************************************************************************)
\* rows of the tables that are longer than the display limit
BigRows == 11
\* nodes and edges of the graphs handed to plot_dag_graphviz
MaxNodes == 2
MaxEdges == 2
\* toggle_table_display(..., display_limit=10) and every call in main()
display_limit == 10

\* the browser sessions
Sessions == {1, 2}

(***************************************************************************)
(* Python values                                                           *)
(***************************************************************************)
\* float('nan'), the value pandas fills in where a left merge finds no match
NaN == "<NaN>"

\* dict.get(key, default)
Get(d, k, default) == IF k \in DOMAIN d THEN d[k] ELSE default

\* the elements of a sequence
Range(s) == {s[i] : i \in DOMAIN s}

\* a + b for Python lists of lists
RECURSIVE Flatten(_)
Flatten(ss) == IF ss = <<>> THEN <<>> ELSE Head(ss) \o Flatten(Tail(ss))

(***************************************************************************)
(* pandas.DataFrame: column labels, index labels and the rows, each row a  *)
(* function from the column labels to cell values                          *)
(***************************************************************************)
\* pd.DataFrame()
EmptyFrame == [cols |-> {}, index |-> <<>>, rows |-> <<>>]

\* RangeIndex(n): the labels 0 .. n-1
RangeIndex(n) == [i \in 1..n |-> i - 1]

\* a frame built from a list of row dicts
Frame(cols, rows) == [cols |-> cols, index |-> RangeIndex(Len(rows)), rows |-> rows]

\* df.empty: some axis has length 0
IsEmpty(df) == df.rows = <<>> \/ df.cols = {}

\* len(df)
FrameLen(df) == Len(df.rows)

\* df.head(n)
FrameHead(df, n) ==
    IF FrameLen(df) <= n THEN df
    ELSE [df EXCEPT !.index = SubSeq(df.index, 1, n), !.rows = SubSeq(df.rows, 1, n)]

\* df.reset_index(drop=True) followed by df.index = df.index + 1
ResetIndexFromOne(df) == [df EXCEPT !.index = [i \in 1..Len(df.rows) |-> i]]

\* df.rename(columns={old: new}): a column that is not there is ignored
RenameColumn(df, old, new) ==
    IF old \notin df.cols THEN df
    ELSE LET cols == (df.cols \ {old}) \cup {new}
         IN  [df EXCEPT !.cols = cols,
                        !.rows = [i \in DOMAIN df.rows |->
                                    [c \in cols |-> IF c = new THEN df.rows[i][old]
                                                    ELSE df.rows[i][c]]]]

\* the columns of left.merge(right[[on, col]], on=on, how='left'): a column
\* of both frames other than the key gets the suffixes _x and _y
MergedCols(left, col) ==
    IF col \in left.cols
    THEN (left.cols \ {col}) \cup {col \o "_x", col \o "_y"}
    ELSE left.cols \cup {col}

\* one output row of the merge: the left row and the value taken from right
MergedRow(left, l, col, v) ==
    [c \in MergedCols(left, col) |->
        IF c = col \o "_x" THEN l[col]
        ELSE IF c = col \o "_y" \/ c = col THEN v
        ELSE l[c]]

\* the output rows for one left row: one per matching right row in the
\* order of right, or a single row filled with NaN when nothing matches
MergedRowsOf(left, l, right, on, col) ==
    LET matches == SelectSeq(right.rows, LAMBDA r : r[on] = l[on])
    IN  IF matches = <<>> THEN << MergedRow(left, l, col, NaN) >>
        ELSE [i \in DOMAIN matches |-> MergedRow(left, l, col, matches[i][col])]

\* left.merge(right[[on, col]], on=on, how='left')
MergeLeft(left, right, on, col) ==
    Frame(MergedCols(left, col),
          Flatten([i \in DOMAIN left.rows |->
                      MergedRowsOf(left, left.rows[i], right, on, col)]))

(***************************************************************************)
(* What TableauWorkbookParser can hand to main().  The parser is not part  *)
(* of app.py; main() sees only whether each call raises, parser.twb_content*)
(* and the report.  The uploads below are the inputs of the model.         *)
(***************************************************************************)
FieldCols == {"Field Name", "Data Source ID"}
SourceCols == {"Data Source ID", "Caption"}

\* n field rows named prefix1 .. prefixn, owned in turn by the given sources
FieldRows(prefix, n, owners) ==
    [i \in 1..n |-> [c \in FieldCols |->
                        IF c = "Field Name" THEN prefix \o ToString(i)
                        ELSE owners[((i - 1) % Len(owners)) + 1]]]

\* the same rows without the 'Data Source ID' column
BareFieldRows(prefix, n) ==
    [i \in 1..n |-> [c \in {"Field Name"} |-> prefix \o ToString(i)]]

\* field rows that have a 'Caption' column of their own
CaptionedFieldRows(prefix, n, owners) ==
    [i \in 1..n |-> [c \in FieldCols \cup {"Caption"} |->
                        IF c = "Field Name" THEN prefix \o ToString(i)
                        ELSE IF c = "Caption" THEN "Field " \o ToString(i)
                        ELSE owners[((i - 1) % Len(owners)) + 1]]]

\* the rows of a data-sources table for the given IDs
SourceRows(ids) ==
    [i \in DOMAIN ids |-> [c \in SourceCols |->
                              IF c = "Caption" THEN "Source " \o ToString(i)
                              ELSE ids[i]]]

\* n worksheet rows; the names repeat and every third one is missing
SheetRows(n) ==
    [i \in 1..n |-> [c \in {"Worksheet Name"} |->
                        IF i % 3 = 0 THEN NaN ELSE "Sheet " \o ToString(i % 3)]]

\* a workbook whose four tables are all there: two are longer than the
\* display limit and one is exactly as long
FullReport ==
    [metadata |-> [version |-> "18.1",
                   source_platform |-> "win",
                   source_build |-> "2021.4.3",
                   calculated_fields |-> Frame(FieldCols, FieldRows("calc", BigRows, <<"ds1", "ds2">>)),
                   original_fields |-> Frame(FieldCols, FieldRows("orig", display_limit, <<"ds2", "ds1">>)),
                   worksheets |-> Frame({"Worksheet Name"}, SheetRows(BigRows))],
     data |-> [data_sources |-> Frame(SourceCols, SourceRows(<<"ds1", "ds2">>))]]

\* a workbook with next to nothing in it: no version attributes, no
\* calculated fields, worksheets or data sources, an empty original-fields table
SparseReport ==
    [metadata |-> [original_fields |-> Frame(FieldCols, <<>>)],
     data |-> <<>>]

\* a calculated field owned by a data source that is not in data_sources,
\* and original fields that have a caption of their own
DanglingReport ==
    [metadata |-> [version |-> "18.1",
                   source_build |-> "2021.4.3",
                   calculated_fields |-> Frame(FieldCols, FieldRows("calc", 1, <<"ds9">>)),
                   original_fields |-> Frame(FieldCols \cup {"Caption"},
                                             CaptionedFieldRows("orig", 2, <<"ds1">>)),
                   worksheets |-> Frame({"Worksheet Name"}, SheetRows(1))],
     data |-> [data_sources |-> Frame(SourceCols, SourceRows(<<"ds1", "ds2">>))]]

\* fields but an empty data-sources table; the worksheets table has no
\* 'Worksheet Name' column
NoSourcesReport ==
    [metadata |-> [version |-> "18.1",
                   source_platform |-> "mac",
                   calculated_fields |-> Frame(FieldCols, FieldRows("calc", 2, <<"ds1">>)),
                   original_fields |-> Frame(FieldCols, FieldRows("orig", 2, <<"ds1">>)),
                   worksheets |-> Frame({"Sheet"}, <<[c \in {"Sheet"} |-> "Sheet 1"]>>)],
     data |-> [data_sources |-> Frame(SourceCols, <<>>)]]

\* a data-sources table in which one ID occurs twice, calculated fields
\* without a 'Data Source ID' column, no worksheets table
WideReport ==
    [metadata |-> [source_platform |-> "linux",
                   source_build |-> "2021.4.3",
                   calculated_fields |-> Frame({"Field Name"}, BareFieldRows("calc", 2)),
                   original_fields |-> Frame(FieldCols, FieldRows("orig", 1, <<"ds1">>))],
     data |-> [data_sources |->
                 Frame(SourceCols,
                       SourceRows(<<"ds1", "ds1", "ds3">>))]]

\* The uploads.  zip: whether decompress_twbx() can open the archive; twb:
\* the document text it finds ("" when the archive holds none); parse: how
\* parse_twb() and get_report() end; report: what get_report() returns.
Workbook(w) ==
    CASE w = 1 -> [zip |-> "bad", twb |-> "", parse |-> "ok", report |-> SparseReport]
      [] w = 2 -> [zip |-> "ok", twb |-> "", parse |-> "ok", report |-> SparseReport]
      [] w = 3 -> [zip |-> "ok", twb |-> "<workbook", parse |-> "parse_twb raises", report |-> SparseReport]
      [] w = 4 -> [zip |-> "ok", twb |-> "<workbook/>", parse |-> "get_report raises", report |-> SparseReport]
      [] w = 5 -> [zip |-> "ok", twb |-> "<workbook 5/>", parse |-> "ok", report |-> FullReport]
      [] w = 6 -> [zip |-> "ok", twb |-> "<workbook 6/>", parse |-> "ok", report |-> SparseReport]
      [] w = 7 -> [zip |-> "ok", twb |-> "<workbook 7/>", parse |-> "ok", report |-> DanglingReport]
      [] w = 8 -> [zip |-> "ok", twb |-> "<workbook 8/>", parse |-> "ok", report |-> NoSourcesReport]
      [] w = 9 -> [zip |-> "ok", twb |-> "<workbook 9/>", parse |-> "ok", report |-> WideReport]

Workbooks == 1..9

\* what is on disk where a file is missing, and after a write that failed
\* part way (open(path, "wb") has truncated the file by then)
NoFile == 0
Truncated == -1

(***************************************************************************)
(* The dependency graph: a networkx DiGraph, its nodes and edges in        *)
(* insertion order, each with its attribute dict                           *)
(***************************************************************************)
\* list(dict.fromkeys(s)): the first occurrence of every element, in order
RECURSIVE Unique(_)
Unique(s) ==
    IF s = <<>> THEN <<>>
    ELSE <<Head(s)>> \o Unique(SelectSeq(Tail(s), LAMBDA x : x # Head(s)))

\* the values of one column, top to bottom ([] when the column is missing)
Column(df, c) == IF c \in df.cols THEN [i \in DOMAIN df.rows |-> df.rows[i][c]] ELSE <<>>

\* generate_dag fails with GraphBuildError when a field is owned by a data
\* source ID that is not in the data-sources table
GraphBuildError(calculated_fields_df, original_fields_df, data_sources_df) ==
    \E id \in Range(Column(calculated_fields_df, "Data Source ID"))
                 \cup Range(Column(original_fields_df, "Data Source ID")) :
        id \notin Range(Column(data_sources_df, "Data Source ID"))

\* the nodes generate_dag makes of one table
TypedNodes(df, c, type) ==
    LET ids == Unique(Column(df, c))
    IN  [i \in DOMAIN ids |-> [id |-> ids[i], data |-> [type |-> type]]]

\* the edges from the owning data source to each field of one table
OwnerEdges(df) ==
    IF "Data Source ID" \notin df.cols \/ "Field Name" \notin df.cols THEN <<>>
    ELSE Unique([i \in DOMAIN df.rows |->
                    [source |-> df.rows[i]["Data Source ID"],
                     target |-> df.rows[i]["Field Name"],
                     attrs |-> <<>>]])

\* generate_dag(calculated_fields_df, original_fields_df, data_sources_df):
\* typed nodes for the data sources and the fields, and the ownership edges
generate_dag(calculated_fields_df, original_fields_df, data_sources_df) ==
    [nodes |-> TypedNodes(data_sources_df, "Data Source ID", "Data Source")
               \o TypedNodes(original_fields_df, "Field Name", "Original Field")
               \o TypedNodes(calculated_fields_df, "Field Name", "Calculated Field"),
     edges |-> OwnerEdges(original_fields_df) \o OwnerEdges(calculated_fields_df)]

(***************************************************************************)
(* plot_dag_graphviz                                                       *)
(***************************************************************************)
\* the keyword arguments of dot.node for a node type
NodeStyle(node_type) ==
    CASE node_type = "Calculated Field" -> [shape |-> "box", style |-> "filled", color |-> "lightblue"]
      [] node_type = "Original Field" -> [shape |-> "ellipse", style |-> "filled", color |-> "#89CFF0"]
      [] node_type = "Data Source" -> [shape |-> "rectangle", style |-> "filled", color |-> "orange"]
      [] OTHER -> [shape |-> "ellipse", style |-> "filled", color |-> "grey"]

\* the statement dot.node(node, **style) adds to the body
NodeStmt(n) ==
    [stmt |-> "node", name |-> n.id, head |-> "",
     attrs |-> NodeStyle(Get(n.data, "type", "Original Field"))]

\* the statement dot.edge(source, target[, label=..., ...]) adds to the body
EdgeStmt(e) ==
    LET label == Get(e.attrs, "label", "")
    IN  [stmt |-> "edge", name |-> e.source, head |-> e.target,
         attrs |-> IF label # ""
                   THEN [label |-> label, fontsize |-> "8", fontcolor |-> "gray"]
                   ELSE <<>>]

\* edges from a node to itself left out
plot_dag_graphviz_NoSelfLoops(graph) ==
    [comment |-> "Dependency DAG", format |-> "png",
     body |-> << [stmt |-> "attr", name |-> "graph", head |-> "", attrs |-> [rankdir |-> "LR"]],
                 [stmt |-> "attr", name |-> "node", head |-> "", attrs |-> [fontsize |-> "10"]] >>
              \o [i \in DOMAIN graph.nodes |-> NodeStmt(graph.nodes[i])]
              \o [i \in DOMAIN SelectSeq(graph.edges, LAMBDA e : e.source # e.target) |->
                    EdgeStmt(SelectSeq(graph.edges, LAMBDA e : e.source # e.target)[i])]]

\* plot_dag_graphviz(G): the Digraph, its body in the order of the calls
plot_dag_graphviz(graph) ==
    [comment |-> "Dependency DAG", format |-> "png",
     body |-> << [stmt |-> "attr", name |-> "graph", head |-> "", attrs |-> [rankdir |-> "LR"]],
                 [stmt |-> "attr", name |-> "node", head |-> "", attrs |-> [fontsize |-> "10"]] >>
              \o [i \in DOMAIN graph.nodes |-> NodeStmt(graph.nodes[i])]
              \o [i \in DOMAIN graph.edges |-> EdgeStmt(graph.edges[i])]]

(***************************************************************************)
(* What a run puts on the page: the Streamlit calls in the order made      *)
(***************************************************************************)
Ev(kind, text) == [kind |-> kind, text |-> text, key |-> "", data |-> <<>>]
EvData(kind, text, data) == [kind |-> kind, text |-> text, key |-> "", data |-> <<data>>]
EvButton(label, key) == [kind |-> "button", text |-> label, key |-> key, data |-> <<>>]

\* the result of a block of main(): the session state it leaves, what it put
\* on the page, the generate_dag calls it made, whether it raised
Block(state, out, calls, raised) ==
    [state |-> state, out |-> out, calls |-> calls, raised |-> raised]

(***************************************************************************)
(* toggle_table_display.  pressed is the key of the button whose click     *)
(* started this run (st.button returns True for it); fails says that       *)
(* st.dataframe raises.                                                    *)
(***************************************************************************)
\* the limit compared with >= instead of >
OverLimit_Inclusive(dataframe, limit) == FrameLen(dataframe) >= limit

\* len(dataframe) > display_limit
OverLimit(dataframe, limit) == FrameLen(dataframe) > limit

toggle_table_display(state, pressed, fails, section_key, dataframe, limit, section_label) ==
    LET st0 == IF section_key \notin DOMAIN state
               THEN (section_key :> FALSE) @@ state ELSE state
    IN  IF fails THEN Block(st0, <<>>, <<>>, TRUE)
        ELSE IF st0[section_key]
        THEN Block(IF pressed = "show_less_" \o section_key
                   THEN [st0 EXCEPT ![section_key] = FALSE] ELSE st0,
                   << EvData("dataframe", section_label, dataframe),
                      EvButton("Show Less " \o section_label, "show_less_" \o section_key) >>,
                   <<>>, FALSE)
        ELSE IF OverLimit(dataframe, limit)
        THEN Block(IF pressed = "show_more_" \o section_key
                   THEN [st0 EXCEPT ![section_key] = TRUE] ELSE st0,
                   << EvData("dataframe", section_label, FrameHead(dataframe, limit)),
                      EvButton("Show More " \o section_label, "show_more_" \o section_key) >>,
                   <<>>, FALSE)
        ELSE Block(st0, << EvData("dataframe", section_label, dataframe) >>, <<>>, FALSE)

(***************************************************************************)
(* main(): the blocks that work in memory                                  *)
(***************************************************************************)
report_sections ==
    << "Version Information", "Calculated Fields", "Original Fields",
       "Worksheets", "Data Sources", "Dependency DAG" >>

section_keys ==
    ("Original Fields" :> "show_original_fields")
    @@ ("Calculated Fields" :> "show_calculated_fields")
    @@ ("Worksheets" :> "show_worksheets")
    @@ ("Data Sources" :> "show_data_sources")

\* "Initialize session states for all sections"
InitSessionState(state) ==
    [k \in DOMAIN state \cup {section_keys[x] : x \in DOMAIN section_keys} |->
        IF k \in DOMAIN state THEN state[k] ELSE FALSE]

\* the twb_content test left out: an archive without a document is parsed
ParseOutcome_NoContentCheck(content) ==
    IF content \notin Workbooks THEN "decompress raises"
    ELSE IF Workbook(content).zip # "ok" THEN "decompress raises"
    ELSE IF Workbook(content).parse # "ok" THEN "parse raises"
    ELSE "ok"

\* the outcome of decompress_twbx(), the twb_content test, parse_twb() and
\* get_report() on the bytes found at the path handed to the parser
ParseOutcome(content) ==
    IF content \notin Workbooks THEN "decompress raises"
    ELSE IF Workbook(content).zip # "ok" THEN "decompress raises"
    ELSE IF Workbook(content).twb = "" THEN "no twb content"
    ELSE IF Workbook(content).parse # "ok" THEN "parse raises"
    ELSE "ok"

\* the st.error of each fatal outcome
FatalMessage(outcome) ==
    CASE outcome = "save raises" -> "Failed to save the uploaded file."
      [] outcome = "decompress raises" -> "Failed to decompress the .twbx file."
      [] outcome = "no twb content" -> "Failed to extract .twb content from the uploaded .twbx file."
      [] outcome = "parse raises" -> "Failed to parse the .twb content."

\* one field table merged with the captions and its new column renamed
WithCaptions(fields_df, df_data_sources) ==
    RenameColumn(MergeLeft(fields_df, df_data_sources, "Data Source ID", "Caption"),
                 "Caption", "Data Source Caption")

\* "Merge Data Sources with Calculated and Original Fields"
MergeCaptions(rep) ==
    LET df_data_sources == Get(rep.data, "data_sources", EmptyFrame)
        calculated_fields_df == Get(rep.metadata, "calculated_fields", EmptyFrame)
        original_fields_df == Get(rep.metadata, "original_fields", EmptyFrame)
        rep1 == IF ~IsEmpty(calculated_fields_df) /\ "Data Source ID" \in calculated_fields_df.cols
                THEN [rep EXCEPT !.metadata.calculated_fields =
                                     WithCaptions(calculated_fields_df, df_data_sources)]
                ELSE rep
        rep2 == IF ~IsEmpty(original_fields_df) /\ "Data Source ID" \in original_fields_df.cols
                THEN [rep1 EXCEPT !.metadata.original_fields =
                                     WithCaptions(original_fields_df, df_data_sources)]
                ELSE rep1
    IN  IF ~IsEmpty(df_data_sources) THEN rep2 ELSE rep

\* the dict shown by the Version Information section
version_info(rep) ==
    ("Version" :> Get(rep.metadata, "version", "Unknown"))
    @@ ("Source Platform" :> Get(rep.metadata, "source_platform", "Unknown"))
    @@ ("Source Build" :> Get(rep.metadata, "source_build", "Unknown"))

\* the else branch left out: an empty table is drawn like any other
TableSection_NoEmptyState(state, pressed, fails, section, df, message) ==
    toggle_table_display(state, pressed, fails, section_keys[section],
                         ResetIndexFromOne(df), display_limit, section)

\* the four table sections: the table through toggle_table_display, or the
\* message
TableSection(state, pressed, fails, section, df, message) ==
    IF ~IsEmpty(df)
    THEN toggle_table_display(state, pressed, fails, section_keys[section],
                              ResetIndexFromOne(df), display_limit, section)
    ELSE Block(state, << Ev("write", message) >>, <<>>, FALSE)

\* the record of one generate_dag call: its arguments and whether it raised
DagCall(calculated_fields_df, original_fields_df, data_sources_df, selected_worksheet) ==
    [calculated_fields |-> calculated_fields_df,
     original_fields |-> original_fields_df,
     data_sources |-> data_sources_df,
     worksheet |-> selected_worksheet,
     raised |-> GraphBuildError(calculated_fields_df, original_fields_df, data_sources_df)]

\* the Dependency DAG section once the four tables are fetched; pick is the
\* position chosen in the selectbox
DagBody(state, fails, calculated_fields_df, original_fields_df, data_sources_df, worksheets_df, pick) ==
    LET worksheets == Unique(SelectSeq(Column(worksheets_df, "Worksheet Name"),
                                       LAMBDA n : n # NaN))
        options == <<"All">> \o worksheets
        selected_worksheet == options[IF pick \in DOMAIN options THEN pick ELSE 1]
        selectbox == << EvData("selectbox", selected_worksheet, options) >>
        call == << DagCall(calculated_fields_df, original_fields_df, data_sources_df,
                           selected_worksheet) >>
    IN  IF IsEmpty(calculated_fields_df) \/ IsEmpty(original_fields_df)
        THEN Block(state, << Ev("write", "Insufficient data to generate Dependency DAG.") >>,
                   <<>>, FALSE)
        \* DataFrame.get('Worksheet Name', []) is a list, which has no dropna
        ELSE IF "Worksheet Name" \notin worksheets_df.cols
        THEN Block(state, <<>>, <<>>, TRUE)
        ELSE Block(state,
                   selectbox
                   \o (IF GraphBuildError(calculated_fields_df, original_fields_df,
                                          data_sources_df) \/ fails
                       THEN <<>>
                       ELSE << EvData("graphviz_chart", "",
                                      plot_dag_graphviz(generate_dag(calculated_fields_df,
                                                                     original_fields_df,
                                                                     data_sources_df))) >>),
                   call,
                   GraphBuildError(calculated_fields_df, original_fields_df, data_sources_df)
                   \/ fails)

\* the Dependency DAG section
DagSection(state, fails, rep, pick) ==
    DagBody(state, fails,
            Get(rep.metadata, "calculated_fields", EmptyFrame),
            Get(rep.metadata, "original_fields", EmptyFrame),
            Get(rep.data, "data_sources", EmptyFrame),
            Get(rep.metadata, "worksheets", EmptyFrame),
            pick)

\* the body of the try of one section; fails says that the Streamlit call
\* that draws the section's content raises
DisplaySection(section, state, pressed, fails, rep, pick) ==
    CASE section = "Version Information" ->
           IF fails THEN Block(state, <<>>, <<>>, TRUE)
           ELSE Block(state, << EvData("json", "", version_info(rep)) >>, <<>>, FALSE)
      [] section = "Calculated Fields" ->
           TableSection(state, pressed, fails, section,
                        Get(rep.metadata, "calculated_fields", EmptyFrame),
                        "No calculated fields found.")
      [] section = "Original Fields" ->
           TableSection(state, pressed, fails, section,
                        Get(rep.metadata, "original_fields", EmptyFrame),
                        "No original fields found.")
      [] section = "Worksheets" ->
           TableSection(state, pressed, fails, section,
                        Get(rep.metadata, "worksheets", EmptyFrame),
                        "No worksheets found.")
      [] section = "Data Sources" ->
           TableSection(state, pressed, fails, section,
                        Get(rep.data, "data_sources", EmptyFrame),
                        "No data sources found.")
      [] section = "Dependency DAG" ->
           DagSection(state, fails, rep, pick)

\* the st.error of the except of the section loop
SectionError(section) ==
    "An error occurred while displaying the '" \o section \o "' section."

\* try ... except Exception around the body of one section: what the body
\* drew before it raised stays on the page, the error message follows
Guarded(section, body) ==
    Block(body.state,
          << Ev("header", section) >> \o body.out
            \o (IF body.raised THEN << Ev("error", SectionError(section)) >> ELSE <<>>),
          body.calls, FALSE)

\* one block after another
Then(first, second) ==
    Block(second.state, first.out \o second.out, first.calls \o second.calls, FALSE)

\* "Iterate through selected sections and display content"; broken is the
\* section whose drawing raises in this run ("" for none)
RECURSIVE DisplaySections(_, _, _, _, _, _, _)
\* the try around the whole loop: the first error ends it
DisplayRest_AbortOnError(sections, selected, this, pressed, broken, rep, pick) ==
    IF this.out # <<>> /\ this.out[Len(this.out)].kind = "error" THEN this
    ELSE Then(this, DisplaySections(sections, selected, this.state, pressed, broken, rep, pick))

\* the iterations that follow the one that ended as this
DisplayRest(sections, selected, this, pressed, broken, rep, pick) ==
    Then(this, DisplaySections(sections, selected, this.state, pressed, broken, rep, pick))

DisplaySections(sections, selected, state, pressed, broken, rep, pick) ==
    IF sections = <<>> THEN Block(state, <<>>, <<>>, FALSE)
    ELSE DisplayRest(Tail(sections), selected,
                     IF Head(sections) \notin Range(selected)
                     THEN Block(state, <<>>, <<>>, FALSE)
                     ELSE Guarded(Head(sections),
                                  DisplaySection(Head(sections), state, pressed,
                                                 broken = Head(sections), rep, pick)),
                     pressed, broken, rep, pick)

\* how the calls the export makes outside app.py can end
ExportOutcomes == {"ok", "html raises", "pipe raises", "pdf none", "pdf raises"}

\* the download the export ends with, or the message of a failed PDF
ExportDownload(html_report, export_format, env) ==
    IF export_format = "HTML"
    THEN << Ev("markdown", "Download Report"),
            EvData("download_button", "Download HTML Report", html_report) >>
    ELSE IF env = "pdf raises" THEN << Ev("error", "Failed to generate PDF") >>
    ELSE IF env = "pdf none" THEN << Ev("error", "Failed to generate PDF report.") >>
    ELSE << Ev("markdown", "Download Report"),
            EvData("download_button", "Download PDF Report", html_report) >>

\* the try of "Generate and Download Report"
ExportReport(state, selected, rep, export_format, env) ==
    LET embeds == "Dependency DAG" \in Range(selected)
                  /\ ~IsEmpty(Get(rep.metadata, "calculated_fields", EmptyFrame))
        key_error == "original_fields" \notin DOMAIN rep.metadata
                     \/ "data_sources" \notin DOMAIN rep.data
        failed == << Ev("error", "An error occurred during report generation") >>
    IN  IF env = "html raises" THEN Block(state, failed, <<>>, FALSE)
        ELSE IF ~embeds
        THEN Block(state, ExportDownload([sections |-> selected, dag |-> FALSE],
                                         export_format, env), <<>>, FALSE)
        ELSE IF key_error THEN Block(state, failed, <<>>, FALSE)
        ELSE Block(state,
                   IF GraphBuildError(rep.metadata.calculated_fields,
                                      rep.metadata.original_fields, rep.data.data_sources)
                      \/ env = "pipe raises"
                   THEN failed
                   ELSE ExportDownload([sections |-> selected, dag |-> TRUE],
                                       export_format, env),
                   << DagCall(rep.metadata.calculated_fields, rep.metadata.original_fields,
                              rep.data.data_sources, "All") >>,
                   FALSE)

\* the page from the sidebar checkboxes to the export, and what the run
\* leaves: the report, the session state, the generate_dag calls
Page(merged, selected, shown, export) ==
    [report |-> merged,
     state |-> export.state,
     calls |-> shown.calls \o export.calls,
     out |-> << Ev("sidebar.header", "Report Generation"),
                EvData("write", "Selected Report Sections", selected) >>
             \o shown.out
             \o << Ev("sidebar.header", "Export Report"),
                   Ev("sidebar.selectbox", "Select export format:"),
                   EvButton("Generate and Download Report", "generate_report") >>
             \o export.out]

\* the export, when its button started the run
ExportIfPressed(merged, selected, shown, pressed, export_format, env) ==
    Page(merged, selected, shown,
         IF pressed = "generate_report"
         THEN ExportReport(shown.state, selected, merged, export_format, env)
         ELSE Block(shown.state, <<>>, <<>>, FALSE))

\* the sections of the merged report, then the export
RenderMerged(state, pressed, merged, selected, broken, pick, export_format, env) ==
    ExportIfPressed(merged, selected,
                    DisplaySections(report_sections, selected, state, pressed, broken,
                                    merged, pick),
                    pressed, export_format, env)

\* main() from the sidebar checkboxes to the export
RenderReport(state, pressed, rep, selected, broken, pick, export_format, env) ==
    RenderMerged(state, pressed, MergeCaptions(rep), selected, broken, pick,
                 export_format, env)

(***************************************************************************)
(* The state: per session the position of its run of main() and the        *)
(* locals of that run, st.session_state and the page; the files on disk;   *)
(* and, for plot_dag_graphviz on its own, a graph and the Digraph made of  *)
(* it.                                                                     *)
(***************************************************************************)
VARIABLES
    pc,                 \* where the run of each session is
    pressed,            \* the button whose click started the run
    uploaded_file,      \* the upload (0 for None)
    save_result,        \* how writing the upload to disk ended
    temp_twbx_path,     \* the local of that name
    twbx_bytes,         \* the bytes the parser found at its twbx_file
    parsed,             \* what parser.get_report() returned
    report,             \* the dict the local report refers to
    selected_sections,  \* the local of that name
    broken,             \* the section whose drawing raises in this run
    dag_calls,          \* the generate_dag calls of the run
    session_state,      \* st.session_state
    out,                \* the page
    fs,                 \* the files in the working directory
    G,                  \* a graph for plot_dag_graphviz
    dot                 \* plot_dag_graphviz(G)

vars == << pc, pressed, uploaded_file, save_result, temp_twbx_path, twbx_bytes,
           parsed, report, selected_sections, broken, dag_calls, session_state,
           out, fs, G, dot >>

runVars == << pc, pressed, uploaded_file, save_result, temp_twbx_path, twbx_bytes,
              parsed, report, selected_sections, broken, dag_calls, session_state,
              out, fs >>

\* no report yet, no bytes read yet, no Digraph yet
NoReport == <<>>
Unread == -2
NoDot == <<>>

\* temp_twbx_path = "temp_uploaded.twbx"
TempPath(s) == "temp_uploaded.twbx"

\* the title and the description, drawn by every run
PageTop == << Ev("title", "Tableau Workbook Parser and Report Generator") >>

\* the keys of the buttons on the page
Buttons(page) == {page[i].key : i \in {j \in DOMAIN page : page[j].kind = "button"}}

\* "Download Original File"
DownloadOriginal(clicked, path, files) ==
    << Ev("sidebar.header", "Download Original File"),
       EvButton("Download Uploaded .twbx", "download_twbx") >>
    \o (IF clicked # "download_twbx" THEN <<>>
        ELSE IF path \in DOMAIN files
        THEN << EvData("sidebar.download_button", path, files[path]) >>
        ELSE << Ev("sidebar.error", "Failed to download the original .twbx file.") >>)

InitRuns ==
    /\ pc = [s \in Sessions |-> "idle"]
    /\ pressed = [s \in Sessions |-> "none"]
    /\ uploaded_file = [s \in Sessions |-> 0]
    /\ save_result = [s \in Sessions |-> ""]
    /\ temp_twbx_path = [s \in Sessions |-> ""]
    /\ twbx_bytes = [s \in Sessions |-> Unread]
    /\ parsed = [s \in Sessions |-> NoReport]
    /\ report = [s \in Sessions |-> NoReport]
    /\ selected_sections = [s \in Sessions |-> <<>>]
    /\ broken = [s \in Sessions |-> ""]
    /\ dag_calls = [s \in Sessions |-> <<>>]
    /\ session_state = [s \in Sessions |-> <<>>]
    /\ out = [s \in Sessions |-> <<>>]
    /\ fs = <<>>

EmptyGraph == [nodes |-> <<>>, edges |-> <<>>]

Init == InitRuns /\ G = EmptyGraph /\ dot = NoDot

(***************************************************************************)
(* The steps of a run of main().  A run touches the disk three times: it   *)
(* writes the upload, the parser reads it back, and the download of the    *)
(* original reads it again; what lies between works in memory.             *)
(***************************************************************************)
\* The script starts for session s: upload w (0: none), after a click on
\* button c ("none": another interaction), and saves the upload.
Start(s, w, c, save) ==
    /\ pc[s] \in {"idle", "done"}
    /\ c = "none" \/ (w = uploaded_file[s] /\ c \in Buttons(out[s]))
    /\ w = 0 => save = "ok"
    /\ pressed' = [pressed EXCEPT ![s] = c]
    /\ session_state' = [session_state EXCEPT ![s] = InitSessionState(@)]
    /\ uploaded_file' = [uploaded_file EXCEPT ![s] = w]
    /\ save_result' = [save_result EXCEPT ![s] = IF w = 0 THEN "" ELSE save]
    /\ temp_twbx_path' = [temp_twbx_path EXCEPT ![s] = IF w = 0 THEN "" ELSE TempPath(s)]
    /\ fs' = IF w = 0 \/ save = "open raises" THEN fs
             ELSE (TempPath(s) :> (IF save = "ok" THEN w ELSE Truncated)) @@ fs
    /\ out' = [out EXCEPT ![s] =
                 PageTop \o (IF w = 0 THEN <<>>
                             ELSE IF save = "ok"
                             THEN << Ev("sidebar.success", "File uploaded successfully."),
                                     Ev("write", "File uploaded and saved successfully.") >>
                             ELSE << Ev("error", FatalMessage("save raises")) >>)]
    /\ pc' = [pc EXCEPT ![s] = IF w # 0 /\ save = "ok" THEN "saved" ELSE "done"]
    /\ twbx_bytes' = [twbx_bytes EXCEPT ![s] = Unread]
    /\ parsed' = [parsed EXCEPT ![s] = NoReport]
    /\ report' = [report EXCEPT ![s] = NoReport]
    /\ selected_sections' = [selected_sections EXCEPT ![s] = <<>>]
    /\ broken' = [broken EXCEPT ![s] = ""]
    /\ dag_calls' = [dag_calls EXCEPT ![s] = <<>>]
    /\ UNCHANGED << G, dot >>

\* The parser is made for temp_twbx_path, decompresses and parses.
Parse(s) ==
    /\ pc[s] = "saved"
    /\ LET content == Get(fs, temp_twbx_path[s], NoFile)
           outcome == ParseOutcome(content)
       IN  /\ twbx_bytes' = [twbx_bytes EXCEPT ![s] = content]
           /\ parsed' = [parsed EXCEPT ![s] =
                           IF outcome = "ok" THEN Workbook(content).report ELSE NoReport]
           /\ report' = [report EXCEPT ![s] =
                           IF outcome = "ok" THEN Workbook(content).report ELSE NoReport]
           /\ out' = [out EXCEPT ![s] =
                        @ \o (IF outcome = "decompress raises" THEN <<>>
                              ELSE << Ev("write", "Decompressed the .twbx file successfully.") >>)
                          \o (IF outcome = "ok"
                              THEN << Ev("write", "Parsed the .twb content successfully.") >>
                              ELSE << Ev("error", FatalMessage(outcome)) >>)]
           /\ pc' = [pc EXCEPT ![s] = IF outcome = "ok" THEN "parsed" ELSE "done"]
    /\ UNCHANGED << pressed, uploaded_file, save_result, temp_twbx_path,
                    selected_sections, broken, dag_calls, session_state, fs, G, dot >>

\* what a rendering r leaves in the state of session s
Rendered(s, r) ==
    /\ report' = [report EXCEPT ![s] = r.report]
    /\ session_state' = [session_state EXCEPT ![s] = r.state]
    /\ dag_calls' = [dag_calls EXCEPT ![s] = r.calls]
    /\ out' = [out EXCEPT ![s] = @ \o r.out]

\* The checkboxes are read, the captions merged, the sections drawn and the
\* export offered.  selected: the ticked sections; brk: the section whose
\* drawing raises; pick: the worksheet chosen for the DAG; export_format and
\* env: the format chosen for the export and how its outside calls end.
Render(s, selected, brk, pick, export_format, env) ==
    /\ pc[s] = "parsed"
    /\ brk \in {""} \cup Range(selected)
    /\ "Dependency DAG" \notin Range(selected) => pick = 1
    /\ pressed[s] # "generate_report" => export_format = "HTML" /\ env = "ok"
    /\ Rendered(s, RenderReport(session_state[s], pressed[s], report[s], selected, brk,
                                pick, export_format, env))
    /\ selected_sections' = [selected_sections EXCEPT ![s] = selected]
    /\ broken' = [broken EXCEPT ![s] = brk]
    /\ pc' = [pc EXCEPT ![s] = "rendered"]
    /\ UNCHANGED << pressed, uploaded_file, save_result, temp_twbx_path, twbx_bytes,
                    parsed, fs, G, dot >>

\* The download of the original is offered and the run ends.
Finish(s) ==
    /\ pc[s] = "rendered"
    /\ out' = [out EXCEPT ![s] = @ \o DownloadOriginal(pressed[s], temp_twbx_path[s], fs)]
    /\ pc' = [pc EXCEPT ![s] = "done"]
    /\ UNCHANGED << pressed, uploaded_file, save_result, temp_twbx_path, twbx_bytes,
                    parsed, report, selected_sections, broken, dag_calls,
                    session_state, fs, G, dot >>

\* the sections of S, in the order of the checkboxes
Ticked(S) == SelectSeq(report_sections, LAMBDA x : x \in S)

\* the boxes the user leaves ticked: all, none, one, or all but one
Selections ==
    {Ticked(Range(report_sections)), Ticked({})}
    \cup {Ticked({x}) : x \in Range(report_sections)}
    \cup {Ticked(Range(report_sections) \ {x}) : x \in Range(report_sections)}

SaveResults == {"ok", "open raises", "write raises"}

\* one session
Next ==
    \/ \E w \in {0} \cup Workbooks, c \in {"none"} \cup Buttons(out[1]), save \in SaveResults :
          Start(1, w, c, save)
    \/ Parse(1)
    \/ \E selected \in Selections, brk \in {""} \cup Range(report_sections), pick \in 1..2,
          export_format \in {"HTML", "PDF"}, env \in ExportOutcomes :
          Render(1, selected, brk, pick, export_format, env)
    \/ Finish(1)

Spec == Init /\ [][Next]_vars

\* two sessions at a time, each showing the whole report of its upload
NextConc ==
    \E s \in Sessions :
        \/ \E w \in {2, 5, 6}, c \in {"none", "download_twbx"} : Start(s, w, c, "ok")
        \/ Parse(s)
        \/ Render(s, report_sections, "", 1, "HTML", "ok")
        \/ Finish(s)

SpecConc == Init /\ [][NextConc]_vars

(***************************************************************************)
(* plot_dag_graphviz on its own: every graph of at most MaxNodes nodes and *)
(* MaxEdges edges, its nodes typed or not, its edges labelled or not       *)
(***************************************************************************)
\* the attribute dicts a node can have: no type, the three known types,
\* another type
NodeData ==
    { <<>>, [type |-> "Calculated Field"], [type |-> "Original Field"],
      [type |-> "Data Source"], [type |-> "Parameter"] }

\* the attribute dicts an edge can have: no label, an empty one, a label
EdgeAttrs == { <<>>, [label |-> ""], [label |-> "ref"] }

NodeName(i) == "n" \o ToString(i)

\* the pairs of nodes in the order G.edges walks them: by source, then target
PairSeq(n) == [k \in 1..(n * n) |-> << ((k - 1) \div n) + 1, ((k - 1) % n) + 1 >>]

\* the DiGraph with n nodes of the given data and the edges E, labelled
MakeGraph(n, data, E, attrs) ==
    [nodes |-> [i \in 1..n |-> [id |-> NodeName(i), data |-> data[i]]],
     edges |-> [k \in DOMAIN SelectSeq(PairSeq(n), LAMBDA p : p \in E) |->
                  [source |-> NodeName(SelectSeq(PairSeq(n), LAMBDA p : p \in E)[k][1]),
                   target |-> NodeName(SelectSeq(PairSeq(n), LAMBDA p : p \in E)[k][2]),
                   attrs |-> attrs[SelectSeq(PairSeq(n), LAMBDA p : p \in E)[k]]]]]

InitPlot ==
    /\ InitRuns
    /\ dot = NoDot
    /\ \E n \in 0..MaxNodes :
         \E data \in [1..n -> NodeData] :
           \E E \in SUBSET ((1..n) \X (1..n)) :
             /\ Cardinality(E) <= MaxEdges
             /\ \E attrs \in [E -> EdgeAttrs] : G = MakeGraph(n, data, E, attrs)

\* dot = plot_dag_graphviz(G)
Plot ==
    /\ dot = NoDot
    /\ dot' = plot_dag_graphviz(G)
    /\ UNCHANGED << G, runVars >>

NextPlot == Plot

SpecPlot == InitPlot /\ [][NextPlot]_vars

(***************************************************************************)
(* Reading a page                                                          *)
(***************************************************************************)
\* a run that got as far as drawing the report
Drawn(s) == pc[s] \in {"rendered", "done"} /\ parsed[s] # NoReport

\* the events of one kind, in page order
OfKind(page, kind) == SelectSeq(page, LAMBDA e : e.kind = kind)

\* the section headers of a page, in page order
Headers(page) == [i \in DOMAIN OfKind(page, "header") |-> OfKind(page, "header")[i].text]

IsHeading(e) == e.kind \in {"header", "sidebar.header"}

\* where the header of a section is (0: nowhere)
HeaderAt(page, section) ==
    IF \E i \in DOMAIN page : page[i].kind = "header" /\ page[i].text = section
    THEN CHOOSE i \in DOMAIN page : page[i].kind = "header" /\ page[i].text = section
    ELSE 0

\* where the next heading after position i is
HeadingAfter(page, i) ==
    IF \E j \in (i + 1)..Len(page) : IsHeading(page[j])
    THEN CHOOSE j \in (i + 1)..Len(page) :
            IsHeading(page[j]) /\ \A k \in (i + 1)..(j - 1) : ~IsHeading(page[k])
    ELSE Len(page) + 1

\* what a section drew: the events between its header and the next heading
SliceFrom(page, i) == SubSeq(page, i + 1, HeadingAfter(page, i) - 1)
SectionSlice(page, section) == SliceFrom(page, HeaderAt(page, section))

\* the upload could not be saved, or what the parser found at its path
\* cannot be decompressed, holds no document, or cannot be parsed
BadBytes(b) ==
    b # Unread /\ (b \notin Workbooks
                   \/ Workbook(b).zip # "ok" \/ Workbook(b).twb = "" \/ Workbook(b).parse # "ok")
FatalRun(s) == save_result[s] \in {"open raises", "write raises"} \/ BadBytes(twbx_bytes[s])

\* nothing of the report or of the export is on the page
NoReportOn(page) ==
    \A i \in DOMAIN page :
        /\ page[i].kind \notin {"header", "json", "dataframe", "graphviz_chart", "selectbox",
                                "sidebar.selectbox", "download_button",
                                "sidebar.download_button", "button"}
        /\ page[i].kind = "sidebar.header" =>
              page[i].text \notin {"Report Generation", "Export Report", "Download Original File"}

\* C1: when saving the upload, decompressing or parsing fails, or the
\* archive holds no document, the run has ended, its page ends with the error
\* message, and no report section and no export is on it.
C1_FatalErrorCancelsReport ==
    \A s \in Sessions :
        FatalRun(s) =>
            /\ pc[s] = "done"
            /\ NoReportOn(out[s])
            /\ out[s][Len(out[s])].kind = "error"
            /\ report[s] = NoReport

\* a run that found an archive without a document has ended on its error
C1_Witness ==
    /\ pc[1] = "done"
    /\ save_result[1] = "ok"
    /\ twbx_bytes[1] = 2
    /\ out[1][Len(out[1])]
         = Ev("error", "Failed to extract .twb content from the uploaded .twbx file.")

\* the message of a table section without rows
EmptyMessage(section) ==
    CASE section = "Calculated Fields" -> "No calculated fields found."
      [] section = "Original Fields" -> "No original fields found."
      [] section = "Worksheets" -> "No worksheets found."
      [] section = "Data Sources" -> "No data sources found."

\* the place of a section's table in the report
TableKey(section) ==
    CASE section = "Calculated Fields" -> "calculated_fields"
      [] section = "Original Fields" -> "original_fields"
      [] section = "Worksheets" -> "worksheets"
      [] section = "Data Sources" -> "data_sources"

TableSections == {"Calculated Fields", "Original Fields", "Worksheets", "Data Sources"}

\* the table of a section is missing from the report or has no rows
NoTable(rep, section) ==
    IF section = "Data Sources"
    THEN "data_sources" \notin DOMAIN rep.data \/ rep.data.data_sources.rows = <<>>
    ELSE TableKey(section) \notin DOMAIN rep.metadata
         \/ rep.metadata[TableKey(section)].rows = <<>>

\* the version dict says Unknown for every attribute the report lacks
UnknownWhereMissing(rep, shown) ==
    /\ "version" \notin DOMAIN rep.metadata => shown["Version"] = "Unknown"
    /\ "source_platform" \notin DOMAIN rep.metadata => shown["Source Platform"] = "Unknown"
    /\ "source_build" \notin DOMAIN rep.metadata => shown["Source Build"] = "Unknown"

\* what C4 asks of one selected section
ExplicitEmptyState(rep, page, section, brk) ==
    /\ section \in TableSections /\ NoTable(rep, section) =>
          SectionSlice(page, section) = << Ev("write", EmptyMessage(section)) >>
    /\ section = "Dependency DAG"
       /\ (NoTable(rep, "Calculated Fields") \/ NoTable(rep, "Original Fields")) =>
          SectionSlice(page, section)
            = << Ev("write", "Insufficient data to generate Dependency DAG.") >>
    /\ section = "Version Information" /\ brk # section =>
          /\ Len(SectionSlice(page, section)) = 1
          /\ SectionSlice(page, section)[1].kind = "json"
          /\ UnknownWhereMissing(rep, SectionSlice(page, section)[1].data[1])

\* C4: a selected section whose table is missing or empty draws its message
\* and nothing else (the Dependency DAG section when the calculated-fields
\* or the original-fields table is), and the Version Information section
\* shows Unknown for a version, platform or build the report lacks.
C4_ExplicitEmptyState ==
    \A s \in Sessions :
        Drawn(s) =>
            \A i \in DOMAIN selected_sections[s] :
                ExplicitEmptyState(parsed[s], out[s], selected_sections[s][i], broken[s])

\* the workbook with next to nothing in it, every section selected
C4_Witness ==
    /\ pc[1] = "done"
    /\ uploaded_file[1] = 6
    /\ selected_sections[1] = report_sections
    /\ broken[1] = ""
    /\ SectionSlice(out[1], "Worksheets") = << Ev("write", "No worksheets found.") >>
    /\ SectionSlice(out[1], "Version Information")[1].data[1]["Version"] = "Unknown"

\* the error of the section a position belongs to, if the event there is one
OwnError(page, i) ==
    page[i].kind = "error" =>
        \E h \in 1..(i - 1) :
            /\ page[h].kind = "header"
            /\ page[i].text = SectionError(page[h].text)
            /\ HeadingAfter(page, h) = i + 1

\* the section could draw something and the call that draws it raised
DrawingRaised(rep, section, brk) ==
    /\ brk = section
    /\ section \in Range(report_sections)
    /\ section \in TableSections => ~NoTable(rep, section)
    /\ section = "Dependency DAG" =>
          /\ ~NoTable(rep, "Calculated Fields")
          /\ ~NoTable(rep, "Original Fields")

\* the errors on the report part of a page
SectionErrors(page) ==
    {i \in DOMAIN page : /\ page[i].kind = "error"
                         /\ \E x \in DOMAIN report_sections :
                               page[i].text = SectionError(report_sections[x])}

\* C10: after a successful parse the headers on the page are the selected
\* sections, each once, in the fixed order of report_sections; an error of
\* the section loop is the last thing its own section drew, a section whose
\* drawing raised has one, and the sections after it are on the page.
C10_SectionsInOrder ==
    \A s \in Sessions :
        Drawn(s) =>
            /\ Headers(out[s]) = Ticked(Range(selected_sections[s]))
            /\ \A i \in SectionErrors(out[s]) : OwnError(out[s], i)
            /\ DrawingRaised(parsed[s], broken[s], broken[s]) =>
                  /\ SectionSlice(out[s], broken[s]) # <<>>
                  /\ SectionSlice(out[s], broken[s])[Len(SectionSlice(out[s], broken[s]))]
                       = Ev("error", SectionError(broken[s]))

\* drawing the calculated fields raised and the data sources are on the page
C10_Witness ==
    /\ pc[1] = "done"
    /\ uploaded_file[1] = 5
    /\ selected_sections[1] = report_sections
    /\ broken[1] = "Calculated Fields"
    /\ SectionSlice(out[1], "Calculated Fields")
         = << Ev("error", SectionError("Calculated Fields")) >>
    /\ Len(SectionSlice(out[1], "Data Sources")) = 1
    /\ SectionSlice(out[1], "Data Sources")[1].kind = "dataframe"

(***************************************************************************)
(* toggle_table_display from run to run                                    *)
(***************************************************************************)
\* the flag of a section (absent counts as False)
Flag(state, section) == Get(state, section_keys[section], FALSE)

\* the table of a section as main() hands it over: the index counts from 1
Numbered(t) == [cols |-> t.cols, index |-> [i \in 1..Len(t.rows) |-> i], rows |-> t.rows]
TableOf(rep, section) ==
    Numbered(IF section = "Data Sources" THEN rep.data.data_sources
             ELSE rep.metadata[TableKey(section)])

\* the first n rows of a numbered table
FirstRows(t, n) ==
    [cols |-> t.cols, index |-> [i \in 1..n |-> i], rows |-> [i \in 1..n |-> t.rows[i]]]

\* what the section is to draw for table t when its flag is flag
ExpectedTable(flag, t, section) ==
    IF flag
    THEN << EvData("dataframe", section, t),
            EvButton("Show Less " \o section, "show_less_" \o section_keys[section]) >>
    ELSE IF Len(t.rows) > display_limit
    THEN << EvData("dataframe", section, FirstRows(t, display_limit)),
            EvButton("Show More " \o section, "show_more_" \o section_keys[section]) >>
    ELSE << EvData("dataframe", section, t) >>

\* the flag a run leaves, given the flag it found, the click that started it
\* and whether the section drew its table (long or not)
ExpectedFlag(flag, click, section, draws, long) ==
    IF draws /\ ~flag /\ long /\ click = "show_more_" \o section_keys[section] THEN TRUE
    ELSE IF draws /\ flag /\ click = "show_less_" \o section_keys[section] THEN FALSE
    ELSE flag

\* the section draws its table in the run that ends in the primed state
DrawsTable(selected, rep, brk, section) ==
    section \in Range(selected) /\ ~NoTable(rep, section) /\ brk # section

\* one table section over one step of session s
ToggleStep(s, section) ==
    IF pc[s] = "parsed" /\ pc'[s] = "rendered"
    THEN /\ DrawsTable(selected_sections'[s], report'[s], broken'[s], section) =>
               SectionSlice(out'[s], section)
                 = ExpectedTable(Flag(session_state[s], section),
                                 TableOf(report'[s], section), section)
         /\ Flag(session_state'[s], section)
              = ExpectedFlag(Flag(session_state[s], section), pressed[s], section,
                             DrawsTable(selected_sections'[s], report'[s], broken'[s], section),
                             ~NoTable(report'[s], section)
                             /\ Len(TableOf(report'[s], section).rows) > display_limit)
    ELSE Flag(session_state'[s], section) = Flag(session_state[s], section)

\* C8: what a table section draws depends only on its flag as the run finds
\* it: the first display_limit rows and Show More when the flag is off and
\* the table is longer, all rows and no button when it is off and the table
\* is not longer, all rows and Show Less when it is on.  A click changes the
\* flag of its own section only, in the run it starts, after the table of that
\* run is drawn; no other step changes a flag.
C8_ToggleAcrossRuns ==
    [][\A s \in Sessions : \A section \in TableSections : ToggleStep(s, section)]_vars

\* the run started by Show More on the calculated fields has ended: the flag
\* is on, the page still shows the first display_limit rows, and the flag of
\* the long worksheets table on the same page is off
C8_Witness ==
    /\ pc[1] = "done"
    /\ pressed[1] = "show_more_show_calculated_fields"
    /\ session_state[1]["show_calculated_fields"]
    /\ ~session_state[1]["show_worksheets"]
    /\ Len(SectionSlice(out[1], "Calculated Fields")) = 2
    /\ Len(SectionSlice(out[1], "Calculated Fields")[1].data[1].rows) = display_limit
    /\ SectionSlice(out[1], "Calculated Fields")[2].key = "show_more_show_calculated_fields"
    /\ Len(SectionSlice(out[1], "Worksheets")) = 2

(***************************************************************************)
(* plot_dag_graphviz                                                       *)
(***************************************************************************)
\* the statements of one kind in a Digraph
Stmts(d, kind) == {k \in DOMAIN d.body : d.body[k].stmt = kind}

\* how a node with the given attribute dict is to be drawn
ExpectedStyle(data) ==
    IF "type" \notin DOMAIN data \/ data["type"] = "Original Field"
    THEN [shape |-> "ellipse", style |-> "filled", color |-> "#89CFF0"]
    ELSE IF data["type"] = "Calculated Field"
    THEN [shape |-> "box", style |-> "filled", color |-> "lightblue"]
    ELSE IF data["type"] = "Data Source"
    THEN [shape |-> "rectangle", style |-> "filled", color |-> "orange"]
    ELSE [shape |-> "ellipse", style |-> "filled", color |-> "grey"]

\* the label an edge is to be drawn with (none: no label attribute at all)
ExpectedLabel(attrs) ==
    IF "label" \in DOMAIN attrs /\ attrs["label"] # ""
    THEN [label |-> attrs["label"], fontsize |-> "8", fontcolor |-> "gray"]
    ELSE <<>>

\* statement st draws node n / edge e
DrawsNode(st, n) == st.name = n.id /\ st.attrs = ExpectedStyle(n.data)
DrawsEdge(st, e) == st.name = e.source /\ st.head = e.target /\ st.attrs = ExpectedLabel(e.attrs)

\* C9: the Digraph has exactly one node statement per node of G, styled by
\* the node's type, exactly one edge statement per edge of G with its source,
\* target and label, self-loops included, and no node or edge statement that
\* is not of G.
C9_PlotPreservesGraph ==
    dot # NoDot =>
        /\ \A i \in DOMAIN G.nodes :
              Cardinality({k \in Stmts(dot, "node") : dot.body[k].name = G.nodes[i].id}) = 1
        /\ \A k \in Stmts(dot, "node") :
              \E i \in DOMAIN G.nodes : DrawsNode(dot.body[k], G.nodes[i])
        /\ \A i \in DOMAIN G.edges :
              Cardinality({k \in Stmts(dot, "edge") :
                              /\ dot.body[k].name = G.edges[i].source
                              /\ dot.body[k].head = G.edges[i].target}) = 1
        /\ \A k \in Stmts(dot, "edge") :
              \E i \in DOMAIN G.edges : DrawsEdge(dot.body[k], G.edges[i])
        /\ Cardinality(Stmts(dot, "node")) = Len(G.nodes)
        /\ Cardinality(Stmts(dot, "edge")) = Len(G.edges)

\* a drawn graph with a labelled self-loop, an unlabelled edge and a node
\* without a type
C9_Witness ==
    /\ dot # NoDot
    /\ \E i \in DOMAIN G.nodes : G.nodes[i].data = <<>>
    /\ \E i \in DOMAIN G.edges :
          G.edges[i].source = G.edges[i].target /\ G.edges[i].attrs = [label |-> "ref"]
    /\ \E i \in DOMAIN G.edges : G.edges[i].attrs = [label |-> ""]
    /\ \E k \in Stmts(dot, "edge") : dot.body[k].name = dot.body[k].head

(***************************************************************************)
(* The temporary file, the captions, GraphBuildError, the parsed tables    *)
(***************************************************************************)
\* a run that has written its upload and has not ended
Running(s) == pc[s] \in {"saved", "parsed", "rendered"}

\* the bytes a page offers as the original file are those of upload w
OffersOnly(page, w) ==
    \A i \in DOMAIN page : page[i].kind = "sidebar.download_button" => page[i].data[1] = w

\* C2: two runs under way with different uploads never use the same path,
\* and what a run parses and offers for download is its own upload.
C2_ExclusiveTempPath ==
    /\ \A s \in Sessions : \A t \in Sessions \ {s} :
          Running(s) /\ Running(t) /\ uploaded_file[s] # uploaded_file[t] =>
              temp_twbx_path[s] # temp_twbx_path[t]
    /\ \A s \in Sessions :
          /\ twbx_bytes[s] # Unread => twbx_bytes[s] = uploaded_file[s]
          /\ OffersOnly(out[s], uploaded_file[s])

\* C3: when a run with an upload has ended, the file it wrote is gone.
C3_TempFilesRemoved ==
    \A s \in Sessions :
        pc[s] = "done" /\ uploaded_file[s] # 0 => temp_twbx_path[s] \notin DOMAIN fs

\* every row of the table has a caption of its data source
Captioned(df) ==
    \A i \in DOMAIN df.rows :
        /\ "Data Source Caption" \in df.cols
        /\ df.rows[i]["Data Source Caption"] \notin {NaN, ""}

\* C5: after the merge every row of the calculated-fields and of the
\* original-fields table has a non-empty Data Source Caption.
C5_EveryFieldHasCaption ==
    \A s \in Sessions :
        Drawn(s) =>
            /\ "calculated_fields" \in DOMAIN report[s].metadata =>
                  Captioned(report[s].metadata.calculated_fields)
            /\ "original_fields" \in DOMAIN report[s].metadata =>
                  Captioned(report[s].metadata.original_fields)

\* C6: a run in which generate_dag raised GraphBuildError does not go on to
\* the export and the end of the script.
C6_GraphBuildErrorPropagates ==
    \A s \in Sessions :
        (\E i \in DOMAIN dag_calls[s] : dag_calls[s][i].raised) =>
            pc[s] \notin {"rendered", "done"}

\* the tables of a generate_dag call are those of the report rep
CalledWith(call, rep) ==
    /\ call.calculated_fields = Get(rep.metadata, "calculated_fields", EmptyFrame)
    /\ call.original_fields = Get(rep.metadata, "original_fields", EmptyFrame)
    /\ call.data_sources = Get(rep.data, "data_sources", EmptyFrame)

\* C7: once get_report() has returned, the report is what it returned, and
\* every generate_dag call is made with the tables it returned.
C7_ParsedTablesReadOnly ==
    \A s \in Sessions :
        parsed[s] # NoReport =>
            /\ report[s] = parsed[s]
            /\ \A i \in DOMAIN dag_calls[s] : CalledWith(dag_calls[s][i], parsed[s])

====
